---- MODULE Spec2Model ----
(***************************************************************************)
(* Booking lifecycle of the XFas logistics backend (routes/booking.py):   *)
(* the shipment and quote collections, the booking endpoints that read    *)
(* and write them, and the lifecycle engine the endpoints call.           *)
(***************************************************************************)
EXTENDS Integers, Sequences, FiniteSets, TLC

VARIABLES shipments, quotes, clock, resp, inflight

vars == <<shipments, quotes, clock, resp, inflight>>

\* ---------------------------------------------------------------- bounds
\* shipments in the store: of the lifecycle and access behaviours, and of the
\* behaviours where two bookings meet (one quote, one tracking number)
MaxShipments == 1
MaxBookings == 2
\* timestamps run from 1 to MaxClock
MaxClock == 7
\* requests that have read their shipment and not yet written it back
MaxInflight == 2

\* ------------------------------------------------------------ value sets
None == "none"
Users == {"u1", "u2"}
\* users are interchangeable: in the lifecycle behaviours u1 makes the bookings
\* and u2 is the caller who owns none
Bookers == {"u1"}
CarrierNames == {"DHL", "FedEx"}
NotesValues == {"n1"}
TrackingNumbers == {"AWB1", "AWB2"}
PatchTrackingNumbers == {"AWB1"}
RequestQuoteIds == {None, "Q1", "Q2", "Q9"}
BookingIds == 1..MaxBookings
LifecycleIds == 1..MaxShipments
\* the location and description a caller of update_status passes: the ones of
\* the synthetic event of simulate_progress, so that the two ways forward
\* leave the same event history
StatusLocations == {"XFas Logistics Hub"}
StatusDescriptions == {"Status updated"}
\* a booking request without a prior quote
PlainRequest == [quote_id |-> None, carrier_name |-> "DHL"]

\* ShipmentStatus and the forward sequence of section 4.1
Forward == <<"pending", "confirmed", "picked_up", "in_transit", "out_for_delivery", "delivered">>
Terminal == {"delivered", "cancelled", "returned"}
SideExits == {"cancelled", "returned"}
Statuses == {Forward[i] : i \in 1..Len(Forward)} \cup SideExits

ForwardIndex(s) == CHOOSE i \in 1..Len(Forward) : Forward[i] = s

\* carrier_quote = None, and a response that carries no shipment
NoCarrierQuote == [carrier_name |-> None, price |-> 0]
NoBody == [id |-> 0, status |-> None, carrier |-> None, tracking_number |-> None,
           notes |-> None, n_events |-> 0]

\* ------------------------------------------------------ lifecycle engine
\* AllowedNext letting a non-terminal shipment jump to any other status
AllowedNextAnywhere(s) ==
    IF s \in Terminal THEN {} ELSE Statuses \ {s}

AllowedNext(s) ==
    IF s \in Terminal THEN {}
    ELSE {Forward[ForwardIndex(s) + 1]} \cup SideExits

update_shipment_status(shipment, new_status, location, description, now) ==
    IF new_status \notin AllowedNext(shipment.status)
    THEN [ok |-> FALSE, error |-> "InvalidTransition", shipment |-> shipment]
    ELSE [ok |-> TRUE, error |-> None,
          shipment |-> [shipment EXCEPT
              !.events = Append(@, [timestamp |-> now, status |-> new_status,
                                    location |-> location, description |-> description]),
              !.status = new_status,
              !.updated_at = now]]

\* simulate_shipment_progress stopping at delivered only: a status outside the
\* forward sequence counts as before its start
simulate_shipment_progress_restart(shipment, now) ==
    IF shipment.status = "delivered" THEN shipment
    ELSE LET next == IF shipment.status \in SideExits THEN Forward[1]
                     ELSE Forward[ForwardIndex(shipment.status) + 1] IN
         [shipment EXCEPT
              !.events = Append(@, [timestamp |-> now, status |-> next,
                                    location |-> "XFas Logistics Hub",
                                    description |-> "Status updated"]),
              !.status = next,
              !.updated_at = now]

simulate_shipment_progress(shipment, now) ==
    IF shipment.status \in Terminal THEN shipment
    ELSE LET next == Forward[ForwardIndex(shipment.status) + 1] IN
         [shipment EXCEPT
              !.events = Append(@, [timestamp |-> now, status |-> next,
                                    location |-> "XFas Logistics Hub",
                                    description |-> "Status updated"]),
              !.status = next,
              !.updated_at = now]

\* BookingService.create_booking: a new Shipment in state pending; a supplied
\* carrier quote becomes the carrier_info baseline
service_create_booking(req, owner_id, carrier_quote, id, now) ==
    [id |-> id,
     user_id |-> owner_id,
     quote_id |-> req.quote_id,
     status |-> "pending",
     carrier_info |-> [carrier |-> carrier_quote.carrier_name,
                       price |-> carrier_quote.price,
                       tracking_number |-> None],
     events |-> << >>,
     notes |-> None,
     created_at |-> now,
     updated_at |-> now]

process_shipment_response(shipment) ==
    [id |-> shipment.id, status |-> shipment.status,
     carrier |-> shipment.carrier_info.carrier,
     tracking_number |-> shipment.carrier_info.tracking_number,
     notes |-> shipment.notes, n_events |-> Len(shipment.events)]

\* ------------------------------------------------------- document store
\* db.shipments.find_one({"id": booking_id})
Exists(id) == id \in 1..Len(shipments)

\* db.shipments.find_one({"carrier_info.tracking_number": awb}): first in store order
FindByTracking(awb) ==
    LET hits == {i \in 1..Len(shipments) : shipments[i].carrier_info.tracking_number = awb}
    IN IF hits = {} THEN 0 ELSE CHOOSE i \in hits : \A j \in hits : i <= j

InitQuotes ==
    [q \in {"Q1", "Q2"} |->
        [carrier_quotes |-> IF q = "Q1"
                            THEN << [carrier_name |-> "DHL", price |-> 500],
                                    [carrier_name |-> "FedEx", price |-> 450],
                                    [carrier_name |-> "DHL", price |-> 650] >>
                            ELSE << [carrier_name |-> "FedEx", price |-> 300] >>,
         status |-> "active",
         selected_carrier |-> None,
         used_at |-> 0]]

NoArgs == [quote_id |-> None, carrier_name |-> None, new_status |-> None,
           notes |-> None, tracking_number |-> None, awb |-> None]

NoResp == [op |-> None, user |-> None, id |-> 0, req |-> NoArgs, code |-> 0,
           error |-> None, body |-> NoBody]

Init ==
    /\ shipments = << >>
    /\ quotes = InitQuotes
    /\ clock = 1
    /\ resp = NoResp
    /\ inflight = {}

\* what a handler hands back: the HTTP outcome and the collections it leaves
Outcome(code, error, body, shs, qs) ==
    [code |-> code, error |-> error, body |-> body, shipments |-> shs, quotes |-> qs]

NotFound == Outcome(404, "NotFound", NoBody, shipments, quotes)
Forbidden == Outcome(403, "Forbidden", NoBody, shipments, quotes)

\* db.shipments.update_one({"id": booking_id}, {"$set": doc})
SetDocument(shs, id, doc) == [shs EXCEPT ![id] = doc]

\* one request served: the collections the handler leaves and its response.
\* clock is the source of timestamps: it moves on when a request stored one.
Serve(op, user, id, req, out) ==
    /\ out.shipments # shipments => clock < MaxClock
    /\ shipments' = out.shipments
    /\ quotes' = out.quotes
    /\ clock' = IF out.shipments # shipments THEN clock + 1 ELSE clock
    /\ resp' = [op |-> op, user |-> user, id |-> id, req |-> req,
                code |-> out.code, error |-> out.error, body |-> out.body]
    /\ UNCHANGED inflight

\* ---------------------------------------------------------- create_booking
\* select_quote without the break: the last matching entry wins
select_quote_last(carrier_quotes, carrier_name) ==
    LET hits == {i \in 1..Len(carrier_quotes) : carrier_quotes[i].carrier_name = carrier_name}
    IN IF hits = {} THEN NoCarrierQuote
       ELSE carrier_quotes[CHOOSE i \in hits : \A j \in hits : i >= j]

\* the scan of quote_data["carrier_quotes"] for the selected carrier
select_quote(carrier_quotes, carrier_name) ==
    LET hits == {i \in 1..Len(carrier_quotes) : carrier_quotes[i].carrier_name = carrier_name}
    IN IF hits = {} THEN NoCarrierQuote
       ELSE carrier_quotes[CHOOSE i \in hits : \A j \in hits : i <= j]

LookupCarrierQuote(req) ==
    IF req.quote_id # None /\ req.quote_id \in DOMAIN quotes
    THEN select_quote(quotes[req.quote_id].carrier_quotes, req.carrier_name)
    ELSE NoCarrierQuote

\* db.quotes.update_one({"id": quote_id}, {"$set": {...}})
MarkQuoteUsed(qs, req, shipment) ==
    IF req.quote_id # None /\ req.quote_id \in DOMAIN qs
    THEN [qs EXCEPT ![req.quote_id] =
             [@ EXCEPT !.status = "used",
                       !.selected_carrier = req.carrier_name,
                       !.used_at = shipment.created_at]]
    ELSE qs

\* create_booking marking the quote before it inserts the shipment
create_booking_quote_first(user, req, fail_at, now) ==
    LET carrier_quote == LookupCarrierQuote(req)
        shipment == service_create_booking(req, user, carrier_quote, Len(shipments) + 1, now)
    IN IF fail_at = "quote_update"
       THEN Outcome(500, "Unexpected", NoBody, shipments, quotes)
       ELSE IF fail_at = "insert"
       THEN Outcome(500, "Unexpected", NoBody, shipments, MarkQuoteUsed(quotes, req, shipment))
       ELSE Outcome(200, None, process_shipment_response(shipment),
                    Append(shipments, shipment), MarkQuoteUsed(quotes, req, shipment))

\* fail_at names the database call that raises, if any; the except clause
\* turns the exception into a 500, with whatever was written before it
create_booking(user, req, fail_at, now) ==
    LET carrier_quote == LookupCarrierQuote(req)
        shipment == service_create_booking(req, user, carrier_quote, Len(shipments) + 1, now)
    IN IF fail_at = "insert"
       THEN Outcome(500, "Unexpected", NoBody, shipments, quotes)
       ELSE IF fail_at = "quote_update"
       THEN Outcome(500, "Unexpected", NoBody, Append(shipments, shipment), quotes)
       ELSE Outcome(200, None, process_shipment_response(shipment),
                    Append(shipments, shipment), MarkQuoteUsed(quotes, req, shipment))

CreateBooking(user, req, fail_at, cap) ==
    /\ Len(shipments) < cap
    /\ Serve("create_booking", user, Len(shipments) + 1,
             [NoArgs EXCEPT !.quote_id = req.quote_id, !.carrier_name = req.carrier_name],
             create_booking(user, req, fail_at, clock))

\* ------------------------------------------------------------- get_booking
get_booking(user, id) ==
    IF ~Exists(id) THEN NotFound
    ELSE IF shipments[id].user_id # user THEN Forbidden
    ELSE Outcome(200, None, process_shipment_response(shipments[id]), shipments, quotes)

GetBooking(user, id) ==
    /\ user \in Users
    /\ Serve("get_booking", user, id, NoArgs, get_booking(user, id))

\* ---------------------------------------------------------- track_shipment
track_shipment(awb) ==
    IF FindByTracking(awb) = 0 THEN NotFound
    ELSE Outcome(200, None, process_shipment_response(shipments[FindByTracking(awb)]),
                 shipments, quotes)

TrackShipment(awb) ==
    /\ awb \in TrackingNumbers
    /\ Serve("track_shipment", None, FindByTracking(awb), [NoArgs EXCEPT !.awb = awb],
             track_shipment(awb))

\* ---------------------------------------------------------- update_booking
\* update_data filled without the "is not None" tests: a field the request
\* leaves out is set to None
ApplyUpdateAllFields(shipment, notes, tracking_number) ==
    [shipment EXCEPT
        !.notes = notes,
        !.carrier_info.tracking_number = tracking_number,
        !.updated_at = shipment.updated_at]

\* the $set of update_data: a field the request leaves out (None) is not set
ApplyUpdate(shipment, notes, tracking_number) ==
    [shipment EXCEPT
        !.notes = IF notes # None THEN notes ELSE @,
        !.carrier_info.tracking_number = IF tracking_number # None THEN tracking_number ELSE @,
        !.updated_at = shipment.updated_at]

\* update_booking without its ownership check
update_booking_unchecked(user, id, notes, tracking_number) ==
    IF ~Exists(id) THEN NotFound
    ELSE IF notes = None /\ tracking_number = None
    THEN Outcome(200, None, process_shipment_response(shipments[id]), shipments, quotes)
    ELSE LET stored == SetDocument(shipments, id, ApplyUpdate(shipments[id], notes, tracking_number))
         IN Outcome(200, None, process_shipment_response(stored[id]), stored, quotes)

update_booking(user, id, notes, tracking_number) ==
    IF ~Exists(id) THEN NotFound
    ELSE IF shipments[id].user_id # user THEN Forbidden
    ELSE IF notes = None /\ tracking_number = None
    THEN Outcome(200, None, process_shipment_response(shipments[id]), shipments, quotes)
    ELSE LET stored == SetDocument(shipments, id, ApplyUpdate(shipments[id], notes, tracking_number))
         IN Outcome(200, None, process_shipment_response(stored[id]), stored, quotes)

\* a patch stores no new timestamp, so it leaves the clock alone
UpdateBooking(user, id, notes, tracking_number) ==
    /\ user \in Users
    /\ LET out == update_booking(user, id, notes, tracking_number)
       IN /\ shipments' = out.shipments
          /\ quotes' = out.quotes
          /\ resp' = [op |-> "update_booking", user |-> user, id |-> id,
                      req |-> [NoArgs EXCEPT !.notes = notes,
                                             !.tracking_number = tracking_number],
                      code |-> out.code, error |-> out.error, body |-> out.body]
    /\ UNCHANGED <<clock, inflight>>

\* ---------------------------------------------------------- cancel_booking
\* the cancellation check knowing delivered only
CancelBlockedDeliveredOnly == {"delivered"}
CancelBlocked == {"delivered", "cancelled", "returned"}
CancelLocation == "XFas Logistics Hub"
\* another text for the cancellation event
CancelDescriptionOther == "Shipment cancelled"
CancelDescription == "Shipment cancelled by customer"

\* an exception of the service is not caught here: the framework answers 500
cancel_booking(user, id, now) ==
    IF ~Exists(id) THEN NotFound
    ELSE IF shipments[id].user_id # user THEN Forbidden
    ELSE IF shipments[id].status \in CancelBlocked
    THEN Outcome(400, "IllegalState", NoBody, shipments, quotes)
    ELSE LET r == update_shipment_status(shipments[id], "cancelled",
                                         CancelLocation, CancelDescription, now)
         IN IF ~r.ok THEN Outcome(500, r.error, NoBody, shipments, quotes)
            ELSE Outcome(200, None, NoBody, SetDocument(shipments, id, r.shipment), quotes)

CancelBooking(user, id) ==
    /\ user \in Users
    /\ Serve("cancel_booking", user, id, NoArgs, cancel_booking(user, id, clock))

\* ----------------------------------------------- simulate_booking_progress
\* simulate_booking_progress answering without saving the shipment
simulate_booking_progress_unsaved(user, id, now) ==
    IF ~Exists(id) THEN NotFound
    ELSE IF shipments[id].user_id # user THEN Forbidden
    ELSE LET updated_shipment == simulate_shipment_progress(shipments[id], now)
         IN Outcome(200, None, process_shipment_response(updated_shipment), shipments, quotes)

simulate_booking_progress(user, id, now) ==
    IF ~Exists(id) THEN NotFound
    ELSE IF shipments[id].user_id # user THEN Forbidden
    ELSE LET updated_shipment == simulate_shipment_progress(shipments[id], now)
         IN Outcome(200, None, process_shipment_response(updated_shipment),
                    SetDocument(shipments, id, updated_shipment), quotes)

SimulateBookingProgress(user, id) ==
    /\ user \in Users
    /\ Serve("simulate_booking_progress", user, id, NoArgs,
             simulate_booking_progress(user, id, clock))

\* ------------------------------------------------------------ update_status
\* the engine's operation with its caller: the caller persists the shipment
\* the engine returns, and persists nothing when the engine fails
update_status(id, new_status, location, description, now) ==
    LET r == update_shipment_status(shipments[id], new_status, location, description, now)
    IN IF ~r.ok THEN Outcome(400, r.error, NoBody, shipments, quotes)
       ELSE Outcome(200, None, process_shipment_response(r.shipment),
                    SetDocument(shipments, id, r.shipment), quotes)

UpdateStatus(id, new_status, location, description) ==
    /\ Exists(id)
    /\ Serve("update_status", None, id, [NoArgs EXCEPT !.new_status = new_status],
             update_status(id, new_status, location, description, clock))

\* ------------------------------------------------------ overlapping requests
\* A handler awaits find_one, works on the Shipment it read, and awaits
\* update_one: between the two awaits the event loop serves other requests.
\* Begin is a handler up to its update_one, on the shipment as it reads it;
\* Finish is the update_one with what Begin computed, and the response.

\* the request waiting at its update_one: the response it will give and the
\* document of its $set
Waiting(op, user, id, req, out) ==
    [op |-> op, user |-> user, id |-> id, req |-> req,
     code |-> out.code, error |-> out.error, body |-> out.body,
     doc |-> out.shipments[id]]

\* a handler that raised, or has nothing to set, answers without an update_one
Begin(op, user, id, req, out, writes) ==
    IF writes
    THEN /\ Cardinality(inflight) < MaxInflight
         /\ out.shipments # shipments => clock < MaxClock
         /\ inflight' = inflight \cup {Waiting(op, user, id, req, out)}
         /\ clock' = IF out.shipments # shipments THEN clock + 1 ELSE clock
         /\ UNCHANGED <<shipments, quotes, resp>>
    ELSE /\ resp' = [op |-> op, user |-> user, id |-> id, req |-> req,
                     code |-> out.code, error |-> out.error, body |-> out.body]
         /\ UNCHANGED <<shipments, quotes, clock, inflight>>

\* cancel_booking up to "Save to database"
BeginCancelBooking(user, id) ==
    /\ user \in Users
    /\ LET out == cancel_booking(user, id, clock)
       IN Begin("cancel_booking", user, id, NoArgs, out, out.code = 200)

\* simulate_booking_progress up to "Save to database": it saves on every
\* shipment of the caller, advanced or not
BeginSimulateBookingProgress(user, id) ==
    /\ user \in Users
    /\ LET out == simulate_booking_progress(user, id, clock)
       IN Begin("simulate_booking_progress", user, id, NoArgs, out, out.code = 200)

\* update_booking up to "Update in database"
BeginUpdateBooking(user, id, notes, tracking_number) ==
    /\ user \in Users
    /\ LET out == update_booking(user, id, notes, tracking_number)
       IN Begin("update_booking", user, id,
                [NoArgs EXCEPT !.notes = notes, !.tracking_number = tracking_number],
                out, out.code = 200 /\ (notes # None \/ tracking_number # None))

\* {"$set": updated_shipment.dict()}: every field of the document, as computed
\* from the shipment the request read
FinishDocument(r) ==
    /\ r \in inflight
    /\ r.op \in {"cancel_booking", "simulate_booking_progress"}
    /\ shipments' = SetDocument(shipments, r.id, r.doc)
    /\ resp' = [op |-> r.op, user |-> r.user, id |-> r.id, req |-> r.req,
                code |-> r.code, error |-> r.error, body |-> r.body]
    /\ inflight' = inflight \ {r}
    /\ UNCHANGED <<quotes, clock>>

\* {"$set": update_data}: notes, carrier_info.tracking_number and the updated_at
\* the request read, on the document as it is now; the response is read back
FinishUpdate(r) ==
    /\ r \in inflight
    /\ r.op = "update_booking"
    /\ LET stored == SetDocument(shipments, r.id,
                        [ApplyUpdate(shipments[r.id], r.req.notes, r.req.tracking_number)
                            EXCEPT !.updated_at = r.doc.updated_at])
       IN /\ shipments' = stored
          /\ resp' = [op |-> r.op, user |-> r.user, id |-> r.id, req |-> r.req,
                      code |-> r.code, error |-> r.error,
                      body |-> process_shipment_response(stored[r.id])]
    /\ inflight' = inflight \ {r}
    /\ UNCHANGED <<quotes, clock>>

\* --------------------------------------------------------------- behaviours
\* the lifecycle of a booking made without a quote
Next ==
    \/ \E user \in Bookers : CreateBooking(user, PlainRequest, None, MaxShipments)
    \/ \E user \in Users, id \in LifecycleIds, n \in NotesValues :
          UpdateBooking(user, id, n, None)
    \/ \E user \in Users, id \in LifecycleIds : CancelBooking(user, id)
    \/ \E user \in Users, id \in LifecycleIds : SimulateBookingProgress(user, id)
    \/ \E id \in LifecycleIds, s \in Statuses, l \in StatusLocations, d \in StatusDescriptions :
          UpdateStatus(id, s, l, d)

Spec == Init /\ [][Next]_vars

\* quote consumption: bookings against the stored quotes, with database failures
NextQuotes ==
    \/ \E user \in Users, q \in RequestQuoteIds, c \in CarrierNames,
          f \in {None, "insert", "quote_update"} :
          CreateBooking(user, [quote_id |-> q, carrier_name |-> c], f, MaxBookings)
    \/ \E user \in Users, id \in BookingIds : GetBooking(user, id)

SpecQuotes == Init /\ [][NextQuotes]_vars

\* reads, patches and cancellations of a booking by its owner and by others
NextAccess ==
    \/ \E user \in Users : CreateBooking(user, PlainRequest, None, MaxShipments)
    \/ \E user \in Users, id \in LifecycleIds : GetBooking(user, id)
    \/ \E awb \in TrackingNumbers : TrackShipment(awb)
    \/ \E user \in Users, id \in LifecycleIds, n \in NotesValues \cup {None},
          t \in TrackingNumbers \cup {None} : UpdateBooking(user, id, n, t)
    \/ \E user \in Users, id \in LifecycleIds : CancelBooking(user, id)

SpecAccess == Init /\ [][NextAccess]_vars

\* tracking numbers: two bookings patched and looked up by tracking number
NextTracking ==
    \/ \E user \in Users : CreateBooking(user, PlainRequest, None, MaxBookings)
    \/ \E user \in Users, id \in BookingIds, t \in TrackingNumbers :
          UpdateBooking(user, id, None, t)
    \/ \E awb \in TrackingNumbers : TrackShipment(awb)

SpecTracking == Init /\ [][NextTracking]_vars

\* requests on one booking that overlap between their read and their write
NextOverlap ==
    \/ \E user \in Bookers : CreateBooking(user, PlainRequest, None, MaxShipments)
    \/ \E user \in Users, id \in LifecycleIds : BeginCancelBooking(user, id)
    \/ \E user \in Users, id \in LifecycleIds : BeginSimulateBookingProgress(user, id)
    \/ \E user \in Users, id \in LifecycleIds, n \in NotesValues :
          BeginUpdateBooking(user, id, n, None)
    \/ \E r \in inflight : FinishDocument(r)
    \/ \E r \in inflight : FinishUpdate(r)

SpecOverlap == Init /\ [][NextOverlap]_vars

\* patches by the owner and by others at every stage of the lifecycle
NextPatch ==
    \/ \E user \in Bookers : CreateBooking(user, PlainRequest, None, MaxShipments)
    \/ \E user \in Users, id \in LifecycleIds, n \in NotesValues \cup {None},
          t \in PatchTrackingNumbers \cup {None} : UpdateBooking(user, id, n, t)
    \/ \E user \in Bookers, id \in LifecycleIds : CancelBooking(user, id)
    \/ \E user \in Bookers, id \in LifecycleIds : SimulateBookingProgress(user, id)

SpecPatch == Init /\ [][NextPatch]_vars

\* -------------------------------------------------------------- properties
IsOwnerOf(user, id) == Exists(id) /\ shipments[id].user_id = user
TerminalStatuses == {"delivered", "cancelled", "returned"}

\* the transition table of section 4.1, pair by pair
TransitionTable ==
    {<<"pending", "confirmed">>, <<"confirmed", "picked_up">>, <<"picked_up", "in_transit">>,
     <<"in_transit", "out_for_delivery">>, <<"out_for_delivery", "delivered">>}
    \cup ({"pending", "confirmed", "picked_up", "in_transit", "out_for_delivery"}
          \X {"cancelled", "returned"})

\* C1: update_status with a new_status outside the allowed next-state set of the
\* shipment's current status fails with InvalidTransition and leaves the stored
\* shipment (status, events, updated_at) exactly as it was.
C1_InvalidTransitionRejected ==
    [][\A id \in BookingIds :
          (/\ Exists(id)
           /\ resp'.op = "update_status" /\ resp'.id = id
           /\ <<shipments[id].status, resp'.req.new_status>> \notin TransitionTable)
          => (/\ resp'.error = "InvalidTransition"
              /\ resp'.code # 200
              /\ shipments' = shipments)]_vars

C1_Witness ==
    /\ resp.op = "update_status" /\ resp.error = "InvalidTransition"
    /\ resp.req.new_status = "delivered"
    /\ Exists(resp.id) /\ shipments[resp.id].status = "confirmed"

\* C2: once a stored shipment's status is delivered, cancelled or returned, no
\* booking operation changes that status.
C2_TerminalAbsorbing ==
    [][\A id \in BookingIds :
          (Exists(id) /\ shipments[id].status \in TerminalStatuses)
          => (Exists(id)' /\ shipments'[id].status = shipments[id].status)]_vars

C2_Witness ==
    /\ resp.op = "simulate_booking_progress" /\ resp.code = 200
    /\ Exists(resp.id) /\ shipments[resp.id].status = "returned"

\* C3: once a quote is used, a later create_booking that names it leaves its
\* used_at and selected_carrier unchanged, or fails.
C3_UsedAtMostOnce ==
    [][\A q \in DOMAIN quotes :
          quotes[q].status = "used"
          => (\/ (/\ quotes'[q].used_at = quotes[q].used_at
                  /\ quotes'[q].selected_carrier = quotes[q].selected_carrier)
              \/ (resp'.op = "create_booking" /\ resp'.code # 200))]_vars

\* C4: get_booking, update_booking and cancel_booking by a caller who is not the
\* owner of an existing shipment answer 403 Forbidden, return nothing of the
\* shipment and write nothing to the shipment store.
C4_NonOwnerForbidden ==
    [][\A id \in BookingIds :
          (/\ Exists(id)
           /\ resp'.op \in {"get_booking", "update_booking", "cancel_booking"}
           /\ resp'.id = id
           /\ shipments[id].user_id # resp'.user)
          => (/\ resp'.code = 403 /\ resp'.error = "Forbidden"
              /\ resp'.body = NoBody
              /\ shipments' = shipments)]_vars

C4_Witness ==
    /\ resp.op = "update_booking" /\ resp.code = 403
    /\ resp.req.tracking_number = "AWB2"
    /\ Exists(resp.id) /\ shipments[resp.id].user_id # resp.user
    /\ shipments[resp.id].carrier_info.tracking_number = "AWB1"

\* C5: a used quote has a stored shipment made by the create_booking request
\* that named it, and a create_booking that fails before or during the insert
\* of the shipment leaves the quotes as they were.
C5_UsedOnlyByStoredBooking ==
    [][/\ \A q \in DOMAIN quotes :
             quotes'[q].status = "used"
             => \E i \in 1..Len(shipments') :
                   /\ shipments'[i].quote_id = q
                   /\ shipments'[i].created_at = quotes'[q].used_at
       /\ (resp'.op = "create_booking" /\ shipments' = shipments) => quotes' = quotes
      ]_vars

C5_Witness ==
    /\ resp.op = "create_booking" /\ resp.code = 500 /\ resp.req.quote_id = "Q2"
    /\ Len(shipments) = 1
    /\ quotes["Q1"].status = "used" /\ quotes["Q2"].status = "active"

\* C6: cancel_booking by the owner of a shipment that is not delivered, cancelled
\* or returned stores status cancelled and appends exactly one event, with the
\* description "Shipment cancelled by customer", after the events stored before.
C6_CancelAppendsEvent ==
    [][\A id \in BookingIds :
          (/\ resp'.op = "cancel_booking" /\ resp'.id = id
           /\ IsOwnerOf(resp'.user, id)
           /\ shipments[id].status \notin TerminalStatuses)
          => (/\ shipments'[id].status = "cancelled"
              /\ Len(shipments'[id].events) = Len(shipments[id].events) + 1
              /\ SubSeq(shipments'[id].events, 1, Len(shipments[id].events))
                    = shipments[id].events
              /\ shipments'[id].events[Len(shipments'[id].events)].description
                    = "Shipment cancelled by customer")]_vars

C6_Witness ==
    /\ resp.op = "cancel_booking" /\ resp.code = 200
    /\ Exists(resp.id) /\ shipments[resp.id].status = "cancelled"
    /\ Len(shipments[resp.id].events) = 4
    /\ shipments[resp.id].events[3].status = "in_transit"

\* C7: cancel_booking by the owner of a delivered, cancelled or returned shipment
\* fails with IllegalState (400), appends no event and writes nothing.
C7_CancelTerminalRejected ==
    [][\A id \in BookingIds :
          (/\ resp'.op = "cancel_booking" /\ resp'.id = id
           /\ IsOwnerOf(resp'.user, id)
           /\ shipments[id].status \in TerminalStatuses)
          => (/\ resp'.code = 400 /\ resp'.error = "IllegalState"
              /\ shipments' = shipments)]_vars

C7_Witness ==
    /\ resp.op = "cancel_booking" /\ resp.code = 400
    /\ Exists(resp.id) /\ shipments[resp.id].status = "delivered"
    /\ Len(shipments[resp.id].events) = 5

\* C8: simulate_progress moves a shipment in a non-terminal status to the
\* immediate successor in the forward sequence and appends exactly one event;
\* on a terminal status it changes neither the status nor the events.
C8_SimulateOneStep ==
    [][\A id \in BookingIds :
          (/\ resp'.op = "simulate_booking_progress" /\ resp'.id = id
           /\ IsOwnerOf(resp'.user, id))
          => IF shipments[id].status \in TerminalStatuses
             THEN /\ shipments'[id].status = shipments[id].status
                  /\ shipments'[id].events = shipments[id].events
             ELSE /\ <<shipments[id].status, shipments'[id].status>> \in TransitionTable
                  /\ shipments'[id].status \notin {"cancelled", "returned"}
                  /\ Len(shipments'[id].events) = Len(shipments[id].events) + 1]_vars

C8_Witness ==
    /\ resp.op = "simulate_booking_progress" /\ resp.code = 200
    /\ Exists(resp.id) /\ shipments[resp.id].status = "cancelled"
    /\ resp.body.status = "cancelled" /\ resp.body.n_events = 3
    /\ shipments[resp.id].events[2].status = "picked_up"

\* C9: a create_booking that names an existing quote and a carrier_name found in
\* its carrier_quotes takes the first matching entry in list order, stores a new
\* pending shipment whose carrier is that carrier_name, and marks the quote used
\* with that carrier_name as selected_carrier.
C9_CreateFromQuote ==
    [][\A q \in DOMAIN quotes :
          (/\ resp'.op = "create_booking" /\ resp'.code = 200
           /\ resp'.req.quote_id = q
           /\ \E i \in 1..Len(quotes[q].carrier_quotes) :
                 quotes[q].carrier_quotes[i].carrier_name = resp'.req.carrier_name)
          => LET cqs == quotes[q].carrier_quotes
                 first == CHOOSE i \in 1..Len(cqs) :
                             /\ cqs[i].carrier_name = resp'.req.carrier_name
                             /\ \A j \in 1..(i - 1) : cqs[j].carrier_name # resp'.req.carrier_name
                 new == shipments'[Len(shipments')]
             IN /\ Len(shipments') = Len(shipments) + 1
                /\ new.status = "pending"
                /\ new.carrier_info.carrier = resp'.req.carrier_name
                /\ new.carrier_info.price = cqs[first].price
                /\ quotes'[q].status = "used"
                /\ quotes'[q].selected_carrier = resp'.req.carrier_name]_vars

C9_Witness ==
    /\ resp.op = "create_booking" /\ resp.code = 200
    /\ resp.req.quote_id = "Q1" /\ resp.req.carrier_name = "DHL"
    /\ shipments[resp.id].carrier_info.price = 500
    /\ quotes["Q1"].selected_carrier = "DHL"

\* C10: a tracking_number, once set, never changes, and no two shipments hold
\* the same tracking_number.
C10_TrackingNumberStable ==
    [][/\ \A id \in BookingIds :
             (Exists(id) /\ shipments[id].carrier_info.tracking_number # None)
             => shipments'[id].carrier_info.tracking_number
                   = shipments[id].carrier_info.tracking_number
       /\ \A i, j \in 1..Len(shipments') :
             (i # j /\ shipments'[i].carrier_info.tracking_number # None)
             => shipments'[i].carrier_info.tracking_number
                   # shipments'[j].carrier_info.tracking_number]_vars

IsPrefix(a, b) == Len(a) <= Len(b) /\ SubSeq(b, 1, Len(a)) = a

\* C11: the events of a shipment are append-only: from one store state to the
\* next the stored events are a prefix of the new ones, also when requests on
\* the same shipment overlap between their read and their write.
C11_EventsAppendOnly ==
    [][\A id \in BookingIds :
          Exists(id) => IsPrefix(shipments[id].events, shipments'[id].events)]_vars

\* C12: every booking operation that changes a stored shipment (update_booking
\* with a patch, a successful cancel_booking, a simulate_booking_progress that
\* advances) leaves its updated_at strictly later than it was.
C12_UpdatedAtRefreshed ==
    [][\A id \in BookingIds :
          (Exists(id) /\ shipments'[id] # shipments[id])
          => shipments'[id].updated_at > shipments[id].updated_at]_vars

\* C13: update_booking by the owner changes nothing of the shipment but the
\* notes and the tracking_number its request carries (updated_at aside), at
\* every stage of the lifecycle, terminal ones included, and leaves every other
\* shipment alone; a request that carries neither leaves the store as it was.
C13_PatchFrame ==
    [][\A id \in BookingIds :
          (/\ resp'.op = "update_booking" /\ resp'.id = id
           /\ IsOwnerOf(resp'.user, id))
          => LET old == shipments[id]
                 new == shipments'[id]
                 req == resp'.req
             IN /\ Len(shipments') = Len(shipments)
                /\ \A other \in 1..Len(shipments) :
                      other # id => shipments'[other] = shipments[other]
                /\ new.id = old.id /\ new.user_id = old.user_id
                /\ new.status = old.status /\ new.events = old.events
                /\ new.quote_id = old.quote_id /\ new.created_at = old.created_at
                /\ new.carrier_info.carrier = old.carrier_info.carrier
                /\ new.carrier_info.price = old.carrier_info.price
                /\ new.notes = IF req.notes # None THEN req.notes ELSE old.notes
                /\ new.carrier_info.tracking_number
                      = IF req.tracking_number # None THEN req.tracking_number
                        ELSE old.carrier_info.tracking_number
                /\ (req.notes = None /\ req.tracking_number = None)
                      => shipments' = shipments]_vars

C13_Witness ==
    /\ resp.op = "update_booking" /\ resp.code = 200
    /\ resp.req.notes = None /\ resp.req.tracking_number = "AWB1"
    /\ Exists(resp.id) /\ shipments[resp.id].status = "delivered"
    /\ Len(shipments[resp.id].events) = 5
    /\ shipments[resp.id].notes = "n1"
    /\ shipments[resp.id].carrier_info.tracking_number = "AWB1"
====
